---------------------------- MODULE Spec2Model ----------------------------
(***************************************************************************)
(* A model of the GooBlox /search request handler (src/gooblox_api.py).    *)
(*                                                                         *)
(* Python strings are modelled as sequences of one-character strings, so   *)
(* that lower(), strip(), startswith(), substring tests, str.replace(),    *)
(* str.split() and the regular expressions of the handler are computed     *)
(* character by character, as the interpreter computes them.               *)
(*                                                                         *)
(* The three external capabilities (search provider, encyclopedia, and     *)
(* spelling dictionary) are inputs: every outcome of a call is chosen      *)
(* nondeterministically at the step of the handler that makes the call.    *)
(* The dictionary is taken to return a word for every word it is asked     *)
(* about ("best correction for a lowercase word").                         *)
(***************************************************************************)
EXTENDS Integers, Sequences, FiniteSets, TLC

-----------------------------------------------------------------------------
(* Characters and the string primitives of the Python runtime.             *)

UpperSeq ==
    <<"A","B","C","D","E","F","G","H","I","J","K","L","M",
      "N","O","P","Q","R","S","T","U","V","W","X","Y","Z">>

LowerSeq ==
    <<"a","b","c","d","e","f","g","h","i","j","k","l","m",
      "n","o","p","q","r","s","t","u","v","w","x","y","z">>

DigitChars ==
    {"0","1","2","3","4","5","6","7","8","9"}

\* The characters of the model with a code point above 127.
NonAscii ==
    {"e_acute"}

None ==
    <<"None">>

IsUpper(c) ==
    \E i \in 1..26 : UpperSeq[i] = c

IsLowerLetter(c) ==
    \E i \in 1..26 : LowerSeq[i] = c

\* [A-Za-z]
IsLetter(c) ==
    IsUpper(c) \/ IsLowerLetter(c)

\* \d
IsDigit(c) ==
    c \in DigitChars

\* \s, and the characters str.strip() and str.split() treat as blank
IsSpace(c) ==
    c = " "

\* \w of a str pattern: letters (of any script), digits and the underscore
IsWordCh(c) ==
    IsLetter(c) \/ IsDigit(c) \/ c = "_" \/ c \in NonAscii

\* ord(ch) < 128
IsAscii(s) ==
    \A i \in 1..Len(s) : s[i] \notin NonAscii

LowerCh(c) ==
    IF IsUpper(c) THEN LowerSeq[CHOOSE i \in 1..26 : UpperSeq[i] = c] ELSE c

UpperCh(c) ==
    IF IsLowerLetter(c) THEN UpperSeq[CHOOSE i \in 1..26 : LowerSeq[i] = c] ELSE c

\* str.lower()
Lower(s) ==
    [i \in 1..Len(s) |-> LowerCh(s[i])]

\* str.title(): a cased character is upper-cased after an uncased one and
\* lower-cased after a cased one.
Title(s) ==
    [i \in 1..Len(s) |->
        IF i > 1 /\ (IsLetter(s[i-1]) \/ s[i-1] \in NonAscii)
        THEN LowerCh(s[i]) ELSE UpperCh(s[i])]

\* s[n:]
Drop(s, n) ==
    SubSeq(s, n + 1, Len(s))

\* s.startswith(p, i-1)
StartsAt(s, i, p) ==
    /\ i + Len(p) - 1 <= Len(s)
    /\ SubSeq(s, i, i + Len(p) - 1) = p

\* s.startswith(p)
StartsWith(s, p) ==
    StartsAt(s, 1, p)

\* p in s
Contains(s, p) ==
    \E i \in 1..(Len(s) - Len(p) + 1) : StartsAt(s, i, p)

RECURSIVE LStrip(_)
LStrip(s) ==
    IF s # <<>> /\ IsSpace(Head(s)) THEN LStrip(Tail(s)) ELSE s

RECURSIVE RStrip(_)
RStrip(s) ==
    IF s # <<>> /\ IsSpace(s[Len(s)]) THEN RStrip(SubSeq(s, 1, Len(s) - 1)) ELSE s

\* str.strip()
Strip(s) ==
    RStrip(LStrip(s))

\* str.replace(old, new), old non-empty: leftmost, non-overlapping
RECURSIVE Replace(_, _, _)
Replace(s, old, new) ==
    IF s = <<>> THEN <<>>
    ELSE IF StartsWith(s, old) THEN new \o Replace(Drop(s, Len(old)), old, new)
    ELSE <<Head(s)>> \o Replace(Tail(s), old, new)

\* len(s.split()): the number of maximal runs of non-blank characters
SplitCount(s) ==
    Cardinality({i \in 1..Len(s) : ~IsSpace(s[i]) /\ (i = 1 \/ IsSpace(s[i-1]))})

\* " ".join(tokens)
RECURSIVE JoinSpace(_)
JoinSpace(tokens) ==
    IF tokens = <<>> THEN <<>>
    ELSE IF Len(tokens) = 1 THEN tokens[1]
    ELSE tokens[1] \o <<" ">> \o JoinSpace(Tail(tokens))

\* Membership in a character class of the handler's regular expressions.
InClass(c, cls) ==
    CASE cls = "alpha" -> IsLetter(c)
      [] cls = "digit" -> IsDigit(c)
      [] cls = "digitcomma" -> IsDigit(c) \/ c = ","
      [] cls = "space" -> IsSpace(c)

\* The end of the maximal run of characters of class cls that starts at i
\* (i - 1 when s[i] is not of the class): a greedy X+ or X*.
RECURSIVE RunEnd(_, _, _)
RunEnd(s, i, cls) ==
    IF i <= Len(s) /\ InClass(s[i], cls) THEN RunEnd(s, i + 1, cls) ELSE i - 1

-----------------------------------------------------------------------------
(* String literals of the handler.                                         *)

S_what_is ==
    <<"w","h","a","t"," ","i","s">>

S_who_is ==
    <<"w","h","o"," ","i","s">>

S_define ==
    <<"d","e","f","i","n","e">>

S_meaning_of ==
    <<"m","e","a","n","i","n","g"," ","o","f">>

S_definition ==
    <<"d","e","f","i","n","i","t","i","o","n">>

S_how_many ==
    <<"h","o","w"," ","m","a","n","y">>

S_population_of ==
    <<"p","o","p","u","l","a","t","i","o","n"," ","o","f">>

S_number_of ==
    <<"n","u","m","b","e","r"," ","o","f">>

S_count_of ==
    <<"c","o","u","n","t"," ","o","f">>

S_exist ==
    <<" ","e","x","i","s","t">>

S_are_there ==
    <<" ","a","r","e"," ","t","h","e","r","e">>

S_are ==
    <<" ","a","r","e">>

S_sp_population ==
    <<" ","p","o","p","u","l","a","t","i","o","n">>

S_population ==
    <<"p","o","p","u","l","a","t","i","o","n">>

S_population_for ==
    <<"p","o","p","u","l","a","t","i","o","n"," ","f","o","r">>

S_population_in ==
    <<"p","o","p","u","l","a","t","i","o","n"," ","i","n">>

S_poplutation ==
    <<"p","o","p","l","u","t","a","t","i","o","n">>

S_popluation ==
    <<"p","o","p","l","u","a","t","i","o","n">>

S_popultation ==
    <<"p","o","p","u","l","t","a","t","i","o","n">>

S_populaton ==
    <<"p","o","p","u","l","a","t","o","n">>

S_million ==
    <<"m","i","l","l","i","o","n">>

S_billion ==
    <<"b","i","l","l","i","o","n">>

S_The_estimated ==
    <<"T","h","e"," ","e","s","t","i","m","a","t","e","d"," ">>

S_is_around ==
    <<" ","p","o","p","u","l","a","t","i","o","n"," ","i","s"," ","a","r","o","u","n","d"," ">>

S_on ==
    <<"o","n">>

S_moderate ==
    <<"m","o","d","e","r","a","t","e">>

S_off ==
    <<"o","f","f">>

S_wt_wt ==
    <<"w","t","-","w","t">>

S_us_en ==
    <<"u","s","-","e","n">>
-----------------------------------------------------------------------------
(* Query normalizer (spelling correction), lines 140-167.                  *)

\* re.findall(r"[A-Za-z]+(?:'[A-Za-z]+)?|\d+", s), scanning from index i
RECURSIVE FindWords(_, _)
FindWords(s, i) ==
    IF i > Len(s) THEN <<>>
    ELSE IF IsLetter(s[i]) THEN
        LET e1 == RunEnd(s, i, "alpha")
            e2 == IF e1 + 2 <= Len(s) /\ s[e1 + 1] = "'" /\ IsLetter(s[e1 + 2])
                  THEN RunEnd(s, e1 + 2, "alpha") ELSE e1
        IN  <<SubSeq(s, i, e2)>> \o FindWords(s, e2 + 1)
    ELSE IF IsDigit(s[i]) THEN
        LET e == RunEnd(s, i, "digit")
        IN  <<SubSeq(s, i, e)>> \o FindWords(s, e + 1)
    ELSE FindWords(s, i + 1)

\* token.isalpha(), for the ASCII tokens FindWords yields
IsAlpha(t) ==
    t # <<>> /\ \A i \in 1..Len(t) : IsLetter(t[i])

\* _spellchecker.correction(word): dict is the set of <<word, correction>>
\* pairs of the loaded dictionary; any other word is its own correction.
Correction(dict, word) ==
    IF \E p \in dict : p[1] = word
    THEN (CHOOSE p \in dict : p[1] = word)[2]
    ELSE word

\* The body of the loop over the tokens, lines 151-160.
CorrectToken(dict, token) ==
    IF IsAlpha(token)
    THEN LET corrected == Correction(dict, Lower(token))
         IN  IF IsUpper(token[1]) THEN Title(corrected) ELSE corrected
    ELSE token

CorrectedQuery(dict, q) ==
    LET words == FindWords(q, 1)
    IN  JoinSpace([i \in 1..Len(words) |-> CorrectToken(dict, words[i])])

\* Line 146: the correction runs only with a dictionary and on ASCII queries.
SpellcheckApplies(available, q) ==
    available /\ IsAscii(q)

\* Mutant: the comparison is case-sensitive.
QueryChangedCaseSensitive(corrected, q) ==
    corrected # q

\* Line 163: the corrected query is used when it differs, ignoring case.
QueryChanged(corrected, q) ==
    Lower(corrected) # Lower(q)

\* Lines 144-167: the effective query and the spellchecked_used flag.
NormalizeQuery(available, dict, q) ==
    IF SpellcheckApplies(available, q) /\ QueryChanged(CorrectedQuery(dict, q), q)
    THEN [effective |-> CorrectedQuery(dict, q), used |-> TRUE]
    ELSE [effective |-> q, used |-> FALSE]

-----------------------------------------------------------------------------
(* Parameter resolver, lines 169-198.                                      *)

DigitValue(c) ==
    CHOOSE v \in 0..9 : <<"0","1","2","3","4","5","6","7","8","9">>[v + 1] = c

RECURSIVE DigitsValue(_)
DigitsValue(ds) ==
    IF ds = <<>> THEN 0
    ELSE 10 * DigitsValue(SubSeq(ds, 1, Len(ds) - 1)) + DigitValue(ds[Len(ds)])

\* int(text): blanks around, an optional sign, then decimal digits; anything
\* else raises ValueError (ok = FALSE).
ParseInt(text) ==
    LET t == Strip(text)
        signed == t # <<>> /\ t[1] \in {"+", "-"}
        ds == IF signed THEN Tail(t) ELSE t
    IN  IF ds # <<>> /\ \A i \in 1..Len(ds) : IsDigit(ds[i])
        THEN [ok |-> TRUE,
              value |-> IF signed /\ t[1] = "-" THEN 0 - DigitsValue(ds) ELSE DigitsValue(ds)]
        ELSE [ok |-> FALSE, value |-> 0]

DefaultMaxResults ==
    5

PopulationMinResults ==
    20

\* Lines 171-176: the parsed max_results, or ok = FALSE for the 400 response.
ParseMaxResults(param) ==
    LET parsed == IF param = None THEN [ok |-> TRUE, value |-> DefaultMaxResults]
                  ELSE ParseInt(param)
    IN  IF parsed.ok /\ parsed.value > 0 THEN parsed ELSE [ok |-> FALSE, value |-> 0]

Max(a, b) ==
    IF a >= b THEN a ELSE b

\* Line 183: the population test, on the effective query
IsPopulationQuery(query) ==
    Contains(Lower(query), S_population)

\* Mutant: population queries always fetch 20 results.
ResolveMaxResultsFixed(query, n) ==
    IF IsPopulationQuery(query) THEN PopulationMinResults ELSE n

\* Lines 183-184
ResolveMaxResults(query, n) ==
    IF IsPopulationQuery(query) THEN Max(n, PopulationMinResults) ELSE n

\* Lines 187-191
ResolveRegion(param, query) ==
    IF param # None /\ param # <<>> THEN param
    ELSE IF \E i \in 1..Len(query) : query[i] \in NonAscii THEN S_wt_wt ELSE S_us_en

\* Line 193
ResolveSafesearch(param) ==
    IF param = None THEN S_moderate ELSE Lower(param)

\* Mutant: the safesearch value is not validated.
SafesearchValidAny(safesearch) ==
    TRUE

\* Line 197
SafesearchValid(safesearch) ==
    safesearch \in {S_on, S_moderate, S_off}

-----------------------------------------------------------------------------
(* Result filter.  _filter_results_by_keywords is called at line 213 and   *)
(* defined nowhere in the file; it is modelled from the specification      *)
(* (section 4.4): a result is kept when its title and body, lower-cased,   *)
(* contain some blank-separated token of the lower-cased query.            *)

\* s.split(): the maximal runs of non-blank characters, from index i
RECURSIVE SplitWords(_, _)
SplitWords(s, i) ==
    IF i > Len(s) THEN <<>>
    ELSE IF IsSpace(s[i]) THEN SplitWords(s, i + 1)
    ELSE LET j == CHOOSE k \in i..Len(s) :
                      /\ \A m \in i..k : ~IsSpace(s[m])
                      /\ (k = Len(s) \/ IsSpace(s[k + 1]))
         IN  <<SubSeq(s, i, j)>> \o SplitWords(s, j + 1)

LexicalOverlap(query, res) ==
    LET tokens == SplitWords(Lower(query), 1)
        text == Lower(res.title \o <<" ">> \o res.body)
    IN  \E i \in 1..Len(tokens) : Contains(text, tokens[i])

RECURSIVE _filter_results_by_keywords(_, _)
_filter_results_by_keywords(query, results) ==
    IF results = <<>> THEN <<>>
    ELSE IF LexicalOverlap(query, Head(results))
         THEN <<Head(results)>> \o _filter_results_by_keywords(query, Tail(results))
         ELSE _filter_results_by_keywords(query, Tail(results))

-----------------------------------------------------------------------------
(* Answer extractor, lines 229-318.                                        *)

\* re.match(r"^(what is|who is|define|meaning of)\s+(.+)", s) for one
\* alternative p: the last group, or None.  \s+ is greedy and gives back one
\* blank when nothing else is left for (.+).
MatchLeadingPhrase(s, p) ==
    IF ~StartsWith(s, p) THEN None
    ELSE LET e == RunEnd(s, Len(p) + 1, "space")
         IN  IF e < Len(p) + 1 THEN None
             ELSE IF e < Len(s) THEN Drop(s, e)
             ELSE IF e >= Len(p) + 2 THEN <<s[Len(s)]>>
             ELSE None

\* re.match(r"^(.+)\s+definition$", s): the first group, or None.  (.+) is
\* greedy, so it leaves a single blank to \s+.
MatchDefinitionSuffix(s) ==
    LET n == Len(s) - Len(S_definition)
    IN  IF n >= 2 /\ StartsAt(s, n + 1, S_definition) /\ IsSpace(s[n])
        THEN SubSeq(s, 1, n - 1)
        ELSE None

\* Lines 238-249: the topic of the first pattern that matches, or None.
DefinitionTopic(lower_query) ==
    LET alts == <<S_what_is, S_who_is, S_define, S_meaning_of>>
        hits == {i \in 1..Len(alts) : MatchLeadingPhrase(lower_query, alts[i]) # None}
    IN  IF hits # {}
        THEN MatchLeadingPhrase(lower_query, alts[CHOOSE i \in hits : \A j \in hits : i <= j])
        ELSE MatchDefinitionSuffix(lower_query)

\* The loops of lines 258-260 and 295-297: each prefix in turn is cut off
\* when the subject starts with it, and the rest is stripped.
RECURSIVE StripPrefixes(_, _)
StripPrefixes(subject, prefixes) ==
    IF prefixes = <<>> THEN subject
    ELSE IF StartsWith(subject, Head(prefixes))
         THEN StripPrefixes(Strip(Drop(subject, Len(Head(prefixes)))), Tail(prefixes))
         ELSE StripPrefixes(subject, Tail(prefixes))

\* re.sub(r"( exist| are there| are)", "", s): every occurrence, leftmost
\* first, the alternatives tried in the order written.
RECURSIVE RemoveTrailingWords(_)
RemoveTrailingWords(s) ==
    IF s = <<>> THEN <<>>
    ELSE IF StartsWith(s, S_exist) THEN RemoveTrailingWords(Drop(s, Len(S_exist)))
    ELSE IF StartsWith(s, S_are_there) THEN RemoveTrailingWords(Drop(s, Len(S_are_there)))
    ELSE IF StartsWith(s, S_are) THEN RemoveTrailingWords(Drop(s, Len(S_are)))
    ELSE <<Head(s)>> \o RemoveTrailingWords(Tail(s))

\* Lines 252-263: the encyclopedia topic of a how-many query, or None.
PopulationTopic(lower_query) ==
    IF StartsWith(lower_query, S_how_many) \/ StartsWith(lower_query, S_population_of)
    THEN LET subject == StripPrefixes(lower_query,
                            <<S_how_many, S_population_of, S_number_of, S_count_of>>)
         IN  Strip(RemoveTrailingWords(subject)) \o S_sp_population
    ELSE None

\* Lines 242-263: the value of match before the lookup of line 265.
LookupTopic(lower_query) ==
    IF DefinitionTopic(lower_query) # None THEN DefinitionTopic(lower_query)
    ELSE PopulationTopic(lower_query)

\* Which of rules 1 and 2 set the topic: 1, 2, or 0 for neither.
LookupRule(lower_query) ==
    IF DefinitionTopic(lower_query) # None THEN 1
    ELSE IF PopulationTopic(lower_query) # None THEN 2
    ELSE 0

\* Lines 289-290
FixPopulationSpelling(s) ==
    Replace(Replace(Replace(Replace(s,
        S_poplutation, S_population),
        S_popluation, S_population),
        S_popultation, S_population),
        S_populaton, S_population)

\* Mutant: the snippet heuristic runs for every query.
MentionsPopulationAlways(query) ==
    TRUE

\* Line 291
MentionsPopulation(query) ==
    Contains(FixPopulationSpelling(Strip(Lower(query))), S_population)

\* Lines 294-297: the subject of the snippet heuristic.
SnippetSubject(query) ==
    StripPrefixes(FixPopulationSpelling(Strip(Lower(query))),
                  <<S_population_of, S_population_for, S_population_in, S_population>>)

\* One attempt of the pattern of line 53 at index i: the index of the last
\* character matched, or 0.  \b, [\d,]+, (?:\.\d+)?, \s*, (?:million|billion),
\* ignoring case; no shorter run can match where the greedy one fails.
NumberMatchEnd(s, i) ==
    LET boundary == IsWordCh(s[i]) # (i > 1 /\ IsWordCh(s[i - 1]))
        e1 == RunEnd(s, i, "digitcomma")
        e2 == IF e1 + 2 <= Len(s) /\ s[e1 + 1] = "." /\ IsDigit(s[e1 + 2])
              THEN RunEnd(s, e1 + 2, "digit") ELSE e1
        e3 == RunEnd(s, e2 + 1, "space")
        word == IF e3 + 7 <= Len(s) THEN Lower(SubSeq(s, e3 + 1, e3 + 7)) ELSE <<>>
    IN  IF boundary /\ e1 >= i /\ word \in {S_million, S_billion} THEN e3 + 7 ELSE 0

\* number_pattern.findall(s), scanning from index i
RECURSIVE FindNumbers(_, _)
FindNumbers(s, i) ==
    IF i > Len(s) THEN <<>>
    ELSE LET e == NumberMatchEnd(s, i)
         IN  IF e > 0 THEN <<SubSeq(s, i, e)>> \o FindNumbers(s, e + 1)
             ELSE FindNumbers(s, i + 1)

\* Line 56
Snippet(res) ==
    res.body \o <<" ">> \o res.title

\* Line 66
FormatEstimate(subject, estimate) ==
    S_The_estimated \o subject \o S_is_around \o estimate \o <<".">>

\* Lines 40-68
RECURSIVE _extract_population_from_snippets(_, _)
_extract_population_from_snippets(subject, results) ==
    IF results = <<>> THEN None
    ELSE LET snippet == Snippet(Head(results))
             matches == FindNumbers(snippet, 1)
         IN  IF Contains(Lower(snippet), Lower(subject)) /\ matches # <<>>
             THEN FormatEstimate(subject, Strip(matches[Len(matches)]))
             ELSE _extract_population_from_snippets(subject, Tail(results))

\* Lines 287-302: the answer of the snippet heuristic, or None.
SnippetAnswer(query, results) ==
    IF MentionsPopulation(query) /\ SnippetSubject(query) # <<>>
    THEN _extract_population_from_snippets(SnippetSubject(query), results)
    ELSE None

\* Lines 308-309
IsShortQuery(query) ==
    SplitCount(Lower(query)) >= 1 /\ SplitCount(Lower(query)) <= 3

-----------------------------------------------------------------------------
(* Inputs: the requests a client sends and the answers of the capabilities. *)

\* The longest result sequence the search provider returns in the model.
MaxHits ==
    2

\* "how many tigers are there"
Q_tigers ==
    <<"h","o","w"," ","m","a","n","y"," ","t","i","g","e","r","s"," ","a","r","e"," ","t","h","e","r","e">>

\* "cat population"
Q_cat_population ==
    <<"c","a","t"," ","p","o","p","u","l","a","t","i","o","n">>

\* "cat populaton"
Q_cat_populaton ==
    <<"c","a","t"," ","p","o","p","u","l","a","t","o","n">>

\* "population of cats"
Q_population_of_cats ==
    <<"p","o","p","u","l","a","t","i","o","n"," ","o","f"," ","c","a","t","s">>

\* "Pyhton"
Q_Pyhton ==
    <<"P","y","h","t","o","n">>

\* request.args.get("q"): None when the parameter is missing, else one of
\* "", "how many tigers are there", "what is cat", "population of cats",
\* "cat population", "cat populaton", "Pyhton", "cat, dog", "CATS",
\* "cat definition", and "caf" followed by a non-ASCII letter.
Queries ==
    { None, <<>>, Q_tigers,
      <<"w","h","a","t"," ","i","s"," ","c","a","t">>,
      Q_population_of_cats, Q_cat_population, Q_cat_populaton, Q_Pyhton,
      <<"c","a","t",","," ","d","o","g">>,
      <<"C","A","T","S">>,
      <<"c","a","t"," ","d","e","f","i","n","i","t","i","o","n">>,
      <<"c","a","f","e_acute">> }

\* request.args.get("max_results"): missing, "0", "-1", "abc", " 3", "25"
MaxResultsParams ==
    { None, <<"0">>, <<"-","1">>, <<"a","b","c">>, <<" ","3">>, <<"2","5">> }

\* request.args.get("safesearch"): missing, "ON", "strict"
SafesearchParams ==
    { None, <<"O","N">>, <<"s","t","r","i","c","t">> }

\* request.args.get("region") and request.args.get("timelimit"): both
\* missing, or "uk-en" and "d"
RegionTimelimitParams ==
    { <<None, None>>, << <<"u","k","-","e","n">>, <<"d">> >> }

\* The dictionaries the spelling capability may have loaded: no correction
\* at all; pyhton -> python and populaton -> population; population ->
\* popular and cat -> car.
Dictionaries ==
    { {},
      { << <<"p","y","h","t","o","n">>, <<"p","y","t","h","o","n">> >>,
        << S_populaton, S_population >> },
      { << S_population, <<"p","o","p","u","l","a","r">> >>,
        << <<"c","a","t">>, <<"c","a","r">> >> } }

\* "Tigers" / "approximately 5,574 tigers remain in the wild"
R_tigers ==
    [title |-> <<"T","i","g","e","r","s">>,
     href |-> <<"t">>,
     body |-> <<"a","p","p","r","o","x","i","m","a","t","e","l","y"," ","5",",","5","7","4"," ","t","i","g","e","r","s"," ","r","e","m","a","i","n"," ","i","n"," ","t","h","e"," ","w","i","l","d">>]

\* "Cat population" / "1.2 Billion cats, 600 million pets"
R_cats ==
    [title |-> <<"C","a","t"," ","p","o","p","u","l","a","t","i","o","n">>,
     href |-> <<"c">>,
     body |-> <<"1",".","2"," ","B","i","l","l","i","o","n"," ","c","a","t","s",","," ","6","0","0"," ","m","i","l","l","i","o","n"," ","p","e","t","s">>]

\* "Weather" / "sunny"
R_weather ==
    [title |-> <<"W","e","a","t","h","e","r">>,
     href |-> <<"w">>,
     body |-> <<"s","u","n","n","y">>]

ResultPool ==
    { R_tigers, R_cats, R_weather }

\* What search_engine.text returns: a sequence of at most MaxHits distinct
\* results, in any order.
ProviderResults ==
    { s \in UNION { [1..n -> ResultPool] : n \in 0..MaxHits } :
        \A i, j \in 1..Len(s) : i # j => s[i] # s[j] }

\* The first title wikipedia.search returns when it finds a page: "Page"
PageTitle ==
    <<"P","a","g","e">>

\* What wikipedia.summary returns: "", " ", "A cat. ", "Felis."
Summaries ==
    { <<>>, <<" ">>, <<"A"," ","c","a","t","."," ">>, <<"F","e","l","i","s",".">> }

\* The outcomes of one encyclopedia lookup (search, then summary).
WikiOutcomes ==
    { [kind |-> "search_raises", text |-> <<>>],
      [kind |-> "no_page", text |-> <<>>],
      [kind |-> "summary_raises", text |-> <<>>] }
    \cup { [kind |-> "summary", text |-> s] : s \in Summaries }

-----------------------------------------------------------------------------
(* State.                                                                  *)

VARIABLES
    spellAvailable,     \* _spellchecker is not None (lines 87-92)
    wikiAvailable,      \* wikipedia is not None (lines 70-77)
    pc,                 \* the handler's position
    request,            \* request.args
    original_query,     \* line 141
    corrected_query,    \* line 161 (None when the correction did not run)
    query,              \* the effective query, line 167
    spellchecked_used,  \* line 145
    results,            \* lines 201 and 213
    answer,             \* line 232
    response,           \* the JSON body
    status,             \* the HTTP status, 0 while the request is handled
    searchCalls,        \* the calls of search_engine.text in this request
    searchOutcome,      \* how that call ended: "none", "raised" or "returned"
    provided,           \* the sequence that call returned
    wikiCalls,          \* the calls of wikipedia.* in this request
    ruleLog             \* the answer rules that ran, with what each produced

vars ==
    <<spellAvailable, wikiAvailable, pc, request, original_query, corrected_query,
      query, spellchecked_used, results, answer, response, status, searchCalls,
      searchOutcome, provided, wikiCalls, ruleLog>>

process ==
    <<spellAvailable, wikiAvailable>>

locals ==
    <<original_query, corrected_query, query, spellchecked_used, results, answer>>

calls ==
    <<searchCalls, searchOutcome, provided, wikiCalls, ruleLog>>

\* Python truthiness of an Optional[str]
Truthy(s) ==
    s # None /\ s # <<>>

\* The encyclopedia calls one lookup makes, lines 268-272 and 311-314.
LookupCalls(topic, out) ==
    IF out.kind \in {"search_raises", "no_page"}
    THEN << [op |-> "search", arg |-> topic] >>
    ELSE << [op |-> "search", arg |-> topic], [op |-> "summary", arg |-> PageTitle] >>

Init ==
    /\ spellAvailable \in BOOLEAN
    /\ wikiAvailable \in BOOLEAN
    /\ pc = "idle"
    /\ request = [q |-> None, max_results |-> None, region |-> None,
                  safesearch |-> None, timelimit |-> None]
    /\ original_query = None
    /\ corrected_query = None
    /\ query = None
    /\ spellchecked_used = FALSE
    /\ results = <<>>
    /\ answer = None
    /\ response = <<>>
    /\ status = 0
    /\ searchCalls = <<>>
    /\ searchOutcome = "none"
    /\ provided = <<>>
    /\ wikiCalls = <<>>
    /\ ruleLog = <<>>

\* A request arrives at GET /search (line 101).
Receive ==
    /\ pc = "idle"
    /\ \E q \in Queries, m \in MaxResultsParams, s \in SafesearchParams,
          rt \in RegionTimelimitParams :
          request' = [q |-> q, max_results |-> m, region |-> rt[1],
                      safesearch |-> s, timelimit |-> rt[2]]
    /\ pc' = "check_query"
    /\ UNCHANGED <<process, locals, response, status, calls>>

\* Lines 136-138
CheckQuery ==
    /\ pc = "check_query"
    /\ IF ~Truthy(request.q)
       THEN /\ response' = [error |-> "Missing query parameter 'q'"]
            /\ status' = 400
            /\ pc' = "done"
            /\ UNCHANGED original_query
       ELSE /\ original_query' = request.q
            /\ pc' = "normalize"
            /\ UNCHANGED <<response, status>>
    /\ UNCHANGED <<process, request, corrected_query, query, spellchecked_used,
                   results, answer, calls>>

\* Lines 140-167
Normalize ==
    /\ pc = "normalize"
    /\ \E dict \in Dictionaries :
          LET n == NormalizeQuery(spellAvailable, dict, original_query)
          IN  /\ query' = n.effective
              /\ spellchecked_used' = n.used
              /\ corrected_query' = IF SpellcheckApplies(spellAvailable, original_query)
                                    THEN CorrectedQuery(dict, original_query)
                                    ELSE None
    /\ pc' = "params"
    /\ UNCHANGED <<process, request, original_query, results, answer, response,
                   status, calls>>

\* Lines 169-198.  The order of the source is kept: max_results is
\* validated first, safesearch last, and neither capability is called.
ResolveParams ==
    /\ pc = "params"
    /\ LET parsed == ParseMaxResults(request.max_results)
           safesearch == ResolveSafesearch(request.safesearch)
       IN  IF ~parsed.ok
           THEN /\ response' = [error |-> "max_results must be a positive integer"]
                /\ status' = 400
                /\ pc' = "done"
           ELSE IF ~SafesearchValid(safesearch)
           THEN /\ response' = [error |-> "safesearch must be 'on', 'moderate', or 'off'"]
                /\ status' = 400
                /\ pc' = "done"
           ELSE /\ pc' = "search"
                /\ UNCHANGED <<response, status>>
    /\ UNCHANGED <<process, request, locals, calls>>

\* The arguments of search_engine.text, lines 201-207
SearchArguments ==
    [keywords |-> query,
     region |-> ResolveRegion(request.region, query),
     safesearch |-> ResolveSafesearch(request.safesearch),
     timelimit |-> request.timelimit,
     max_results |-> ResolveMaxResults(query, ParseMaxResults(request.max_results).value)]

\* Mutant: the error body is returned without the 500 status.
SearchFailedAsOk ==
    [status |-> 200, body |-> [error |-> "Search failed"]]

\* Lines 208-210: the response to an exception of the search capability
SearchFailed ==
    [status |-> 500, body |-> [error |-> "Search failed"]]

\* Lines 200-210: the one call of the search capability, which raises or
\* returns a result sequence.
InvokeSearch ==
    /\ pc = "search"
    /\ searchCalls' = Append(searchCalls, SearchArguments)
    /\ \/ /\ searchOutcome' = "raised"
          /\ response' = SearchFailed.body
          /\ status' = SearchFailed.status
          /\ pc' = "done"
          /\ UNCHANGED <<results, provided>>
       \/ /\ searchOutcome' = "returned"
          /\ \E r \in ProviderResults : results' = r /\ provided' = r
          /\ pc' = "assemble"
          /\ UNCHANGED <<response, status>>
    /\ UNCHANGED <<process, request, original_query, corrected_query, query,
                   spellchecked_used, answer, wikiCalls, ruleLog>>

\* Mutant: the provider's results are passed on unfiltered.
FilteredResultsUnfiltered(q, raw) ==
    raw

\* Line 213
FilteredResults(q, raw) ==
    _filter_results_by_keywords(q, raw)

\* Mutant: the response echoes the effective query.
BaseResponseEchoEffective(filtered) ==
    LET base == [query |-> query, count |-> Len(filtered), results |-> filtered]
    IN  IF spellchecked_used THEN base @@ [spellchecked_query |-> query] ELSE base

\* Lines 216-223
BaseResponse(filtered) ==
    LET base == [query |-> original_query, count |-> Len(filtered), results |-> filtered]
    IN  IF spellchecked_used THEN base @@ [spellchecked_query |-> query] ELSE base

\* Mutant: the empty result set does not end the request.
NoResultsNever(filtered) ==
    FALSE

\* Line 225: not results
NoResults(filtered) ==
    filtered = <<>>

\* Lines 212-227
Assemble ==
    /\ pc = "assemble"
    /\ results' = FilteredResults(query, results)
    /\ IF NoResults(results')
       THEN /\ response' = BaseResponse(results')
                           @@ [message |-> "No results found for the given query."]
            /\ status' = 200
            /\ pc' = "done"
       ELSE /\ response' = BaseResponse(results')
            /\ pc' = "lookup"
            /\ UNCHANGED status
    /\ UNCHANGED <<process, request, original_query, corrected_query, query,
                   spellchecked_used, answer, calls>>

\* Mutant: the exception handler uses the text of the exception as summary.
LookupSummaryLeaky(out) ==
    IF out.kind = "summary" THEN out.text
    ELSE IF out.kind = "no_page" THEN None
    ELSE <<"e","r","r","o","r">>

\* Lines 269-276 and 312-318: what a lookup yields, the summary or nothing.
LookupSummary(out) ==
    IF out.kind = "summary" THEN out.text ELSE None

\* Lines 232-276: rules 1 and 2, one encyclopedia lookup for the topic of
\* the first of them that matches.
Lookup ==
    /\ pc = "lookup"
    /\ LET lower_query == Strip(Lower(query))
           match == LookupTopic(lower_query)
       IN  IF wikiAvailable /\ match # None
           THEN \E out \in WikiOutcomes :
                   LET summary == LookupSummary(out)
                   IN  /\ wikiCalls' = wikiCalls \o LookupCalls(match, out)
                       /\ answer' = IF summary # None THEN Strip(summary) ELSE None
                       /\ ruleLog' = Append(ruleLog,
                              [rule |-> LookupRule(lower_query), outcome |-> out.kind,
                               answer |-> IF summary # None /\ Truthy(Strip(summary))
                                          THEN Strip(summary) ELSE None])
           ELSE UNCHANGED <<answer, wikiCalls, ruleLog>>
    /\ pc' = "heuristic"
    /\ UNCHANGED <<process, request, original_query, corrected_query, query,
                   spellchecked_used, results, response, status, searchCalls,
                   searchOutcome, provided>>

\* Lines 278-302: the answer of rules 1-2 is put in the response, or else
\* rule 3 runs on the filtered results.
Heuristic ==
    /\ pc = "heuristic"
    /\ IF Truthy(answer)
       THEN /\ response' = response @@ [answer |-> answer]
            /\ UNCHANGED ruleLog
       ELSE LET pop_answer == SnippetAnswer(query, results)
            IN  /\ response' = IF pop_answer # None
                               THEN response @@ [answer |-> pop_answer]
                               ELSE response
                /\ ruleLog' = Append(ruleLog,
                       [rule |-> 3, outcome |-> "snippets", answer |-> pop_answer])
    /\ pc' = "fallback"
    /\ UNCHANGED <<process, request, locals, status, searchCalls, searchOutcome,
                   provided, wikiCalls>>

\* Mutant: rule 4 does not test whether an answer is already set.
FallbackAppliesAlways ==
    wikiAvailable

\* Line 306
FallbackApplies ==
    wikiAvailable /\ "answer" \notin DOMAIN response

\* Lines 304-320: rule 4, then the 200 response.
Fallback ==
    /\ pc = "fallback"
    /\ IF FallbackApplies /\ IsShortQuery(query)
       THEN \E out \in WikiOutcomes :
               LET summary == LookupSummary(out)
                   found == summary # None /\ summary # <<>>
               IN  /\ wikiCalls' = wikiCalls \o LookupCalls(query, out)
                   /\ response' = IF found
                                  THEN response @@ [answer |-> Strip(summary)]
                                  ELSE response
                   /\ ruleLog' = Append(ruleLog,
                          [rule |-> 4, outcome |-> out.kind,
                           answer |-> IF found THEN Strip(summary) ELSE None])
       ELSE UNCHANGED <<response, wikiCalls, ruleLog>>
    /\ status' = 200
    /\ pc' = "done"
    /\ UNCHANGED <<process, request, locals, searchCalls, searchOutcome, provided>>

\* The response is sent; nothing of the request outlives it.
Return ==
    /\ pc = "done"
    /\ pc' = "idle"
    /\ request' = [q |-> None, max_results |-> None, region |-> None,
                   safesearch |-> None, timelimit |-> None]
    /\ original_query' = None
    /\ corrected_query' = None
    /\ query' = None
    /\ spellchecked_used' = FALSE
    /\ results' = <<>>
    /\ answer' = None
    /\ response' = <<>>
    /\ status' = 0
    /\ searchCalls' = <<>>
    /\ searchOutcome' = "none"
    /\ provided' = <<>>
    /\ wikiCalls' = <<>>
    /\ ruleLog' = <<>>
    /\ UNCHANGED process

Next ==
    \/ Receive
    \/ CheckQuery
    \/ Normalize
    \/ ResolveParams
    \/ InvokeSearch
    \/ Assemble
    \/ Lookup
    \/ Heuristic
    \/ Fallback
    \/ Return

Spec ==
    Init /\ [][Next]_vars

-----------------------------------------------------------------------------
(* Properties.  The inputs of a request are classified here by their text, *)
(* not by the handler's own validation operators.                          *)

Done ==
    pc = "done"

Has(key) ==
    key \in DOMAIN response

\* q is missing or empty
MissingQuery ==
    request.q \in {None, <<>>}

\* max_results is "0", "-1" or "abc"
BadMaxResults ==
    request.max_results \in { <<"0">>, <<"-","1">>, <<"a","b","c">> }

\* safesearch is "strict"
BadSafesearch ==
    request.safesearch = <<"s","t","r","i","c","t">>

InvalidRequest ==
    MissingQuery \/ BadMaxResults \/ BadSafesearch

ValidRequest ==
    pc # "idle" /\ ~InvalidRequest

\* The max_results the caller asked for: 5 by default, " 3" is 3, "25" is 25.
RequestedMaxResults ==
    IF request.max_results = None THEN 5
    ELSE IF request.max_results = <<" ","3">> THEN 3 ELSE 25

\* a is an order-preserving subsequence of b
RECURSIVE IsSubsequence(_, _)
IsSubsequence(a, b) ==
    IF a = <<>> THEN TRUE
    ELSE IF b = <<>> THEN FALSE
    ELSE IF Head(a) = Head(b) THEN IsSubsequence(Tail(a), Tail(b))
    ELSE IsSubsequence(a, Tail(b))

\* C1: a request whose q is missing, whose max_results is not a positive
\* integer or whose safesearch is not on, moderate or off is answered with
\* status 400 and an error key, whatever its other parameters, and neither
\* the search capability nor the encyclopedia is called while it is handled.
C1_InvalidRequestRejected ==
    (pc # "idle" /\ InvalidRequest) =>
        /\ searchCalls = <<>>
        /\ wikiCalls = <<>>
        /\ pc \in {"check_query", "normalize", "params", "done"}
        /\ Done => (status = 400 /\ Has("error") /\ DOMAIN response = {"error"})

\* A well-formed, spell-corrected population query with safesearch "strict"
\* has been rejected.
C1_Witness ==
    /\ Done
    /\ status = 400
    /\ request.q = Q_cat_populaton
    /\ request.max_results = <<"2","5">>
    /\ BadSafesearch
    /\ spellchecked_used

\* C2: with valid parameters the search capability is called exactly once;
\* the response is 500 with an error key exactly when that call raised, and
\* 200 whenever it returned a sequence, empty or not.
C2_SearchFailureIs500 ==
    /\ Len(searchCalls) <= 1
    /\ (searchOutcome = "none") = (searchCalls = <<>>)
    /\ (Done /\ ValidRequest) =>
          /\ Len(searchCalls) = 1
          /\ status \in {200, 500}
          /\ (status = 500) = (searchOutcome = "raised")
          /\ (status = 200) = (searchOutcome = "returned")
          /\ (status = 500) => Has("error")
          /\ (status = 200) => ~Has("error")

\* The search capability raised and the handler answered 500.
C2_Witness ==
    /\ Done
    /\ ValidRequest
    /\ searchOutcome = "raised"
    /\ status = 500
    /\ Has("error")

\* C3: when the search capability returns an empty sequence the response is
\* 200 with count 0, no results, a message and no answer, and the
\* encyclopedia is never called; message appears only with count 0.
C3_ZeroResults ==
    /\ (searchOutcome = "returned" /\ provided = <<>>) => wikiCalls = <<>>
    /\ (Done /\ searchOutcome = "returned" /\ provided = <<>>) =>
          /\ status = 200
          /\ response.count = 0
          /\ response.results = <<>>
          /\ Has("message")
          /\ ~Has("answer")
    /\ (Done /\ Has("message")) => (status = 200 /\ response.count = 0)

\* An empty result set for a one-word query with the encyclopedia installed:
\* the short-query lookup would have run had the handler gone on.
C3_Witness ==
    /\ Done
    /\ searchOutcome = "returned"
    /\ provided = <<>>
    /\ wikiAvailable
    /\ request.q = Q_Pyhton
    /\ Has("message")

C5_QueryEchoed ==
    (Done /\ Has("query")) => response.query = request.q

\* A response to a query the spelling correction changed.
C5_Witness ==
    /\ Done
    /\ Has("query")
    /\ spellchecked_used
    /\ query # request.q
    /\ response.count > 0

\* C6: in a 200 response spellchecked_query is present exactly when the
\* correction ran and its space-joined tokens differ from q ignoring case;
\* then it is the query the search capability was called with, and otherwise
\* the search capability was called with q itself.  Without a dictionary, or
\* with a non-ASCII character in q, the field is absent.
C6_SpellcheckedQuery ==
    (Done /\ status = 200) =>
        /\ Has("spellchecked_query") =
              (corrected_query # None /\ Lower(corrected_query) # Lower(request.q))
        /\ Has("spellchecked_query") =>
              /\ response.spellchecked_query = searchCalls[1].keywords
              /\ response.spellchecked_query = corrected_query
        /\ ~Has("spellchecked_query") => searchCalls[1].keywords = request.q
        /\ (~spellAvailable \/ ~IsAscii(request.q)) =>
              /\ ~Has("spellchecked_query")
              /\ corrected_query = None
              /\ searchCalls[1].keywords = request.q

\* "Pyhton" was corrected to "Python", capital kept.
C6_Witness ==
    /\ Done
    /\ status = 200
    /\ request.q = Q_Pyhton
    /\ Has("spellchecked_query")
    /\ response.spellchecked_query = <<"P","y","t","h","o","n">>

\* C7: the rules run in the order 1, 2, 3, 4; no rule runs after one that
\* produced an answer, and the answer of the response is the one that rule
\* produced; without a producing rule the response has no answer.
C7_FirstAnswerWins ==
    /\ \A i, j \in 1..Len(ruleLog) :
          i < j => (ruleLog[i].rule < ruleLog[j].rule /\ ruleLog[i].answer = None)
    /\ (Done /\ status = 200) =>
          /\ Has("answer") = (ruleLog # <<>> /\ ruleLog[Len(ruleLog)].answer # None)
          /\ Has("answer") => response.answer = ruleLog[Len(ruleLog)].answer

\* Rule 1 answered a three-word query, which rule 4 would otherwise look up.
C7_Witness ==
    /\ Done
    /\ status = 200
    /\ wikiAvailable
    /\ Len(ruleLog) = 1
    /\ ruleLog[1].rule = 1
    /\ Has("answer")
    /\ IsShortQuery(query)

\* The outcomes of an encyclopedia lookup that are failures.
LookupFailures ==
    {"search_raises", "no_page", "summary_raises"}

\* C8: with valid parameters and a search that returned, the response is 200
\* without an error key and carries the filtered results, whatever the
\* encyclopedia did and whether or not the dictionary is there; a lookup
\* that failed produced no answer, and an absent encyclopedia is not called.
C8_SoftFailures ==
    /\ \A i \in 1..Len(ruleLog) :
          ruleLog[i].outcome \in LookupFailures => ruleLog[i].answer = None
    /\ ~wikiAvailable => wikiCalls = <<>>
    /\ (Done /\ ValidRequest /\ searchOutcome = "returned") =>
          /\ status = 200
          /\ ~Has("error")
          /\ response.results = _filter_results_by_keywords(query, provided)
          /\ (\A i \in 1..Len(ruleLog) : ruleLog[i].outcome \in LookupFailures)
                => ~Has("answer")

\* Both lookups of a request failed, one in search and one in summary, and
\* no dictionary was loaded.
C8_Witness ==
    /\ Done
    /\ status = 200
    /\ ~spellAvailable
    /\ response.count > 0
    /\ \E i, j \in 1..Len(ruleLog) :
          /\ ruleLog[i].outcome = "search_raises"
          /\ ruleLog[j].outcome = "summary_raises"

\* "The estimated tigers population is around 5,574."
TigersAnswer ==
    S_The_estimated \o <<"t","i","g","e","r","s">> \o S_is_around
        \o <<"5",",","5","7","4">> \o <<".">>

\* The request of the tigers scenario: the effective query is "how many
\* tigers are there", the filtered results hold the tigers snippet and the
\* encyclopedia found no page.
TigersScenario ==
    /\ Done
    /\ status = 200
    /\ query = Q_tigers
    /\ \E i \in 1..Len(response.results) : response.results[i] = R_tigers
    /\ wikiAvailable
    /\ ruleLog # <<>>
    /\ ruleLog[1].rule = 2
    /\ ruleLog[1].outcome = "no_page"

\* C9 as stated: in the tigers scenario the answer is "The estimated tigers
\* population is around 5,574."
C9_Original ==
    TigersScenario => (Has("answer") /\ response.answer = TigersAnswer)

\* A spelling of "population" that rule 3 recognises occurs in s.
HasPopulationWord(s) ==
    \E w \in {S_population, S_poplutation, S_popluation, S_popultation, S_populaton} :
        Contains(s, w)

\* C9 as amended: in the tigers scenario the response has no answer.  A
\* how-many query whose lookup found no page goes on to rule 3, and rule 3
\* produces an answer only for a query that contains "population" (or one
\* of its four misspellings), from a filtered result that holds a number
\* followed by million or billion.
C9_SnippetHeuristic ==
    /\ TigersScenario => ~Has("answer")
    /\ (pc \in {"fallback", "done"} /\ ruleLog # <<>> /\ ruleLog[1].rule = 2
            /\ ruleLog[1].outcome = "no_page") =>
          (Len(ruleLog) >= 2 /\ ruleLog[2].rule = 3)
    /\ \A i \in 1..Len(ruleLog) :
          (ruleLog[i].rule = 3 /\ ruleLog[i].answer # None) =>
              /\ HasPopulationWord(Lower(query))
              /\ \E k \in 1..Len(results) :
                    LET text == Lower(Snippet(results[k]))
                    IN  \E n \in 1..Len(text) :
                            /\ IsDigit(text[n])
                            /\ \E m \in {S_million, S_billion} :
                                  StartsAt(text, RunEnd(text, n + 1, "space") + 1, m)

\* The tigers scenario itself.
C9_Witness ==
    TigersScenario

\* C10: the search capability is asked for max(requested, 20) results when
\* the effective query contains "population" in any case, and for exactly
\* the requested number (5 by default) otherwise.
C10_MaxResultsOverride ==
    searchCalls # <<>> =>
        searchCalls[1].max_results =
            IF Contains(Lower(query), S_population)
            THEN (IF RequestedMaxResults > 20 THEN RequestedMaxResults ELSE 20)
            ELSE RequestedMaxResults

\* 25 results were requested and kept for a query that contains
\* "population" only after the correction.
C10_Witness ==
    /\ searchCalls # <<>>
    /\ request.q = Q_cat_populaton
    /\ query = Q_cat_population
    /\ request.max_results = <<"2","5">>
    /\ searchCalls[1].max_results = 25

=============================================================================
